---- MODULE Spec2Model ----
(***************************************************************************)
(* Model of the Silence Remover backend: the tier-gated job lifecycle      *)
(* (backend/main.py), the two processing pipelines                         *)
(* (backend/video_processor.py, backend/remsi_integration.py) and the      *)
(* interval planning / filter-graph synthesis they share, and the parsers  *)
(* of the silence detector's output.                                       *)
(*                                                                         *)
(* Time is counted in tenths of a second (0.1 s = 1), so that the 0.1 s    *)
(* fallback trim and the 60 s free-tier cap are both integers.             *)
(*                                                                         *)
(* External programs (ffprobe, ffmpeg, Whisper) are nondeterministic: each *)
(* call may succeed or fail in the ways the code distinguishes. The job    *)
(* store (database session) is taken to answer every query and commit.     *)
(* Steps of one task run that touch nothing another run can see are taken *)
(* together with the step before them.                                     *)
(***************************************************************************)
EXTENDS Integers, Sequences, FiniteSets, TLC

\* ------------------------------------------------------------------ bounds
\* Largest timestamp a detector result or a duration takes in the planner runs.
MaxTime == 4
\* Longest detector result (number of intervals) in the planner runs.
MaxLen == 2
\* Number of jobs submitted in the lifecycle runs.
MaxJobs == 2
\* Longest detector trace (number of lines) in the parser runs.
MaxTrace == 3

\* --------------------------------------------------------- program constants
\* "trim=duration=0.1": length of the fallback clip for an all-silent video.
FallbackDuration == 1
\* "if duration > 60": the free-tier cap, 60 s.
FreeTierLimit == 600

VARIABLES
    \* planner runs: one detector result and one duration, planned in one mode
    plan_mode,          \* "input" | "basic" | "premium"
    detected,           \* the detector's intervals, a sequence of <<start, end>>
    video_duration,     \* total duration handed to create_filter_complex
    filter_complex,     \* the compiled filter graph (<<>> before planning)
    used_copy           \* TRUE when the premium path took the stream copy

planvars == <<plan_mode, detected, video_duration, filter_complex, used_copy>>

VARIABLES
    \* the jobs table (models.Job) and the upload each row belongs to
    status,             \* Job.status; "absent" while the row does not exist
    use_premium,        \* Job.use_premium
    filename,           \* Job.filename, the uploaded file's name
    processed_file_url, \* Job.processed_file_url; <<>> is NULL
    error_message,      \* Job.error_message; "" is NULL
    true_duration,      \* the real duration of the uploaded video
    \* the broker and the workers
    queue,              \* Celery task messages not yet picked up
    pc,                 \* where the task run of each job stands
    exc,                \* message of the exception propagating in the task
    \* locals of the task run of each job
    job_detected,       \* silence_segments / segments
    job_filter,         \* filter_complex handed to the encoder (<<>>: none built)
    job_copy,           \* TRUE when "-c copy" was used
    \* the file system under uploads/ and temp_processing/
    fs,
    \* what happened in the run of each job (history)
    detector_outcome,   \* "none" | "ok" | "failed" (no start, non-zero exit) | "raised"
    encoder_outcome,    \* "none" | "ok" | "failed"
    origin_error,       \* message of the first error raised in the pipeline
    audio_read_from     \* job whose extracted audio the transcription read

dbvars == <<status, use_premium, filename, processed_file_url, error_message, true_duration>>
runvars == <<pc, exc, job_detected, job_filter, job_copy>>
histvars == <<detector_outcome, encoder_outcome, origin_error, audio_read_from>>
jobvars == <<dbvars, queue, runvars, fs, histvars>>

VARIABLES
    \* parser runs: one detector trace, parsed by one of the two parsers
    parse_mode,         \* "idle" | "input" | "remsi" | "video_processor"
    output,             \* the detector's output, a sequence of lines
    parsed,             \* the list of (start, end) tuples the call returned
    parse_raised        \* TRUE when an exception was raised inside the parser

parsevars == <<parse_mode, output, parsed, parse_raised>>

vars == <<planvars, jobvars, parsevars>>

\* ------------------------------------------------------------ filter graphs
\* A label of the filter graph: "[0:v]" is <<"0:v">>, "[v3]" is <<"v", 3>>.
Lbl(name) == <<name>>
LblI(name, i) == <<name, i>>

\* One filter of the graph: op(args) applied to inp, optionally followed by
\* setpts/asetpts=PTS-STARTPTS (reset), writing label out.
Node(op, inp, args, reset, out) ==
    [op |-> op, inp |-> inp, args |-> args, reset |-> reset, out |-> out]

\* "[0:v][0:a]concat=n=1:v=1:a=1[out]"
IdentityFilter ==
    << Node("concat", <<Lbl("0:v"), Lbl("0:a")>>,
            <<<<"n", 1>>, <<"v", 1>>, <<"a", 1>>>>, FALSE, Lbl("out")) >>

\* "[0:v]trim=duration=0.1,setpts=PTS-STARTPTS[outv];[0:a]atrim=duration=0.1,
\*  asetpts=PTS-STARTPTS[outa];[outv][outa]concat=n=1:v=1:a=1[out]"
AllSilentFilter ==
    << Node("trim", <<Lbl("0:v")>>, <<<<"duration", FallbackDuration>>>>, TRUE, Lbl("outv")),
       Node("atrim", <<Lbl("0:a")>>, <<<<"duration", FallbackDuration>>>>, TRUE, Lbl("outa")),
       Node("concat", <<Lbl("outv"), Lbl("outa")>>,
            <<<<"n", 1>>, <<"v", 1>>, <<"a", 1>>>>, FALSE, Lbl("out")) >>

\* The two trim filters of segment number i (0-based), interval <<start, end>>.
TrimPair(i, seg) ==
    << Node("trim", <<Lbl("0:v")>>, <<<<"start", seg[1]>>, <<"end", seg[2]>>>>, TRUE, LblI("v", i)),
       Node("atrim", <<Lbl("0:a")>>, <<<<"start", seg[1]>>, <<"end", seg[2]>>>>, TRUE, LblI("a", i)) >>

RECURSIVE TrimFilters(_, _)
\* filters.append(trim); filters.append(atrim) for i, (start, end) in enumerate(segs)
TrimFilters(segs, i) ==
    IF i > Len(segs) THEN <<>>
    ELSE TrimPair(i - 1, segs[i]) \o TrimFilters(segs, i + 1)

\* The trim + concat + merge chain both graph compilers emit for a non-empty
\* list of intervals.
TrimConcatGraph(segs) ==
    LET n == Len(segs)
        v_inputs == [i \in 1..n |-> LblI("v", i - 1)]
        a_inputs == [i \in 1..n |-> LblI("a", i - 1)]
    IN  TrimFilters(segs, 1) \o
        << Node("concat", v_inputs, <<<<"n", n>>, <<"v", 1>>, <<"a", 0>>>>, FALSE, Lbl("outv")),
           Node("concat", a_inputs, <<<<"n", n>>, <<"v", 0>>, <<"a", 1>>>>, FALSE, Lbl("outa")),
           Node("concat", <<Lbl("outv"), Lbl("outa")>>,
                <<<<"n", 1>>, <<"v", 1>>, <<"a", 1>>>>, FALSE, Lbl("out")) >>

\* ------------------------------------------------- RemsiProcessor (planner)
RECURSIVE ScanSilence(_, _, _, _)
\* for start, end in silence_segments:
\*     if start > last_end: non_silent_segments.append((last_end, start))
\*     last_end = end
ScanSilence(silence_segments, i, last_end, acc) ==
    IF i > Len(silence_segments) THEN [segs |-> acc, last_end |-> last_end]
    ELSE LET start == silence_segments[i][1]
             end   == silence_segments[i][2]
         IN  ScanSilence(silence_segments, i + 1, end,
                         IF start > last_end THEN Append(acc, <<last_end, start>>)
                                             ELSE acc)

\* The list non_silent_segments as create_filter_complex has it after the
\* "final segment" step.
non_silent_segments(silence_segments, duration) ==
    LET r == ScanSilence(silence_segments, 1, 0, <<>>)
    IN  IF r.last_end < duration THEN Append(r.segs, <<r.last_end, duration>>)
                                 ELSE r.segs

\* create_filter_complex without the "if not non_silent_segments" fallback.
create_filter_complex_NoFallback(silence_segments, duration) ==
    IF silence_segments = <<>> THEN IdentityFilter
    ELSE TrimConcatGraph(non_silent_segments(silence_segments, duration))

\* RemsiProcessor.create_filter_complex
create_filter_complex(silence_segments, duration) ==
    IF silence_segments = <<>> THEN IdentityFilter
    ELSE LET ns == non_silent_segments(silence_segments, duration)
         IN  IF ns = <<>> THEN AllSilentFilter ELSE TrimConcatGraph(ns)

\* ------------------------------------------------ VideoProcessor (premium)
\* VideoProcessor._create_whisper_filter_complex; a Whisper segment is taken
\* as <<segment['start'], segment['end']>>.
create_whisper_filter_complex(segments) ==
    IF segments = <<>> THEN IdentityFilter ELSE TrimConcatGraph(segments)

\* "if segments:" never taking the else branch (the stream copy).
copy_through_Never(segments) == FALSE

\* process_with_whisper, "if segments: ... else:": the else branch, the
\* stream copy, is taken when the model returned no segments.
copy_through(segments) == segments = <<>>

\* -------------------------------------------------- reading a filter graph
\* The video trim filters of a graph, in order.
VideoTrims(graph) == SelectSeq(graph, LAMBDA nd : nd.op = "trim")

\* The interval one trim filter retains: start..end, or 0..duration.
TrimInterval(nd) ==
    IF nd.args[1][1] = "duration" THEN <<0, nd.args[1][2]>>
    ELSE <<nd.args[1][2], nd.args[2][2]>>

\* The intervals a graph turns into trim nodes.
TrimIntervals(graph) ==
    LET t == VideoTrims(graph) IN [i \in 1..Len(t) |-> TrimInterval(t[i])]

\* What a graph keeps of an input of the given duration: its trim intervals, or
\* the whole input when it trims nothing (the identity filter).
KeptIntervals(graph, duration) ==
    IF VideoTrims(graph) = <<>> THEN << <<0, duration>> >> ELSE TrimIntervals(graph)

\* ----------------------------------------------------------- job lifecycle
Jobs == 1..MaxJobs
Filenames == {"a.mp4", "b.mp4"}
\* A clip under the free-tier cap and one over it.
ShortClip == MaxTime
LongClip == FreeTierLimit + 1
\* The uploads of the lifecycle runs: premium uploads under either name (the
\* premium path never looks at the duration), free uploads of either length.
Uploads ==
    {[name |-> n, premium |-> TRUE, dur |-> ShortClip] : n \in Filenames}
        \cup {[name |-> "a.mp4", premium |-> FALSE, dur |-> d] : d \in {ShortClip, LongClip}}
\* What the detectors report for the jobs of the lifecycle runs.
SilenceResults == { << <<1, 2>> >> }
SpeechResults == { <<>>, << <<0, 2>> >> }

\* JobStatus (models.py)
PENDING == "pending"
PROCESSING == "processing"
COMPLETED == "completed"
FAILED == "failed"

\* A path: {dir}/{sub}/{prefix}{name}; sub is 0 when the path has no
\* job-id directory.
Path(dir, sub, prefix, name) == [dir |-> dir, sub |-> sub, prefix |-> prefix, name |-> name]

\* f"{upload_dir}/{file.filename}" with upload_dir = f"uploads/{job_id}"
UploadPath(job_id, name) == Path("uploads", job_id, "", name)

\* os.path.join(os.path.dirname(file_path), f"processed_{filename}")
OutputPath(file_path) == Path(file_path.dir, file_path.sub, "processed_", file_path.name)

\* os.path.join(self.temp_dir, f"audio_{filename}.wav")
AudioPath(file_path) == Path("temp_processing", 0, "audio_", file_path.name)

\* f"/downloads/{job_id}/processed_{os.path.basename(file_path)}"
DownloadUrl(job_id, file_path) == Path("/downloads", job_id, "processed_", file_path.name)

\* The file_path argument of the task of job j.
FilePath(j) == UploadPath(j, filename[j])

Paths == {UploadPath(j, n) : j \in Jobs, n \in Filenames}
            \cup {OutputPath(UploadPath(j, n)) : j \in Jobs, n \in Filenames}
            \cup {AudioPath(UploadPath(j, n)) : j \in Jobs, n \in Filenames}

\* A file: who wrote it and whether it was written to the end.
NoFile == [by |-> 0, whole |-> FALSE]
File(j, whole) == [by |-> j, whole |-> whole]

\* Messages of the errors the pipeline raises.
TierMsg == "Free tier only supports videos under 1 minute"
RemsiFailedMsg == "Failed to process video with Remsi"
ProbeValueMsg == "could not convert string to float: ''"
EncoderExitMsg == "Command '['ffmpeg', ...]' returned non-zero exit status 1."
ModelLoadMsg == "whisper.load_model failed"
AudioExtractMsg == "ffmpeg error (see stderr output for detail)"
TranscribeMsg == "Failed to load audio"
RemoveMsg == "[Errno 2] No such file or directory: 'temp_processing/audio_'"

JobInit ==
    /\ status = [j \in Jobs |-> "absent"]
    /\ use_premium = [j \in Jobs |-> FALSE]
    /\ filename = [j \in Jobs |-> "a.mp4"]
    /\ processed_file_url = [j \in Jobs |-> <<>>]
    /\ error_message = [j \in Jobs |-> ""]
    /\ true_duration = [j \in Jobs |-> ShortClip]
    /\ queue = {}
    /\ pc = [j \in Jobs |-> "idle"]
    /\ exc = [j \in Jobs |-> ""]
    /\ job_detected = [j \in Jobs |-> <<>>]
    /\ job_filter = [j \in Jobs |-> <<>>]
    /\ job_copy = [j \in Jobs |-> FALSE]
    /\ fs = [p \in Paths |-> NoFile]
    /\ detector_outcome = [j \in Jobs |-> "none"]
    /\ encoder_outcome = [j \in Jobs |-> "none"]
    /\ origin_error = [j \in Jobs |-> ""]
    /\ audio_read_from = [j \in Jobs |-> 0]

\* An exception that is swallowed: the task returns with nothing recorded.
Raise_Swallowed(j, msg) ==
    /\ pc' = [pc EXCEPT ![j] = "done"]
    /\ exc' = exc

\* An error with message msg is raised in the task of job j and propagates to
\* the task's "except Exception as e".
Raise(j, msg) ==
    /\ pc' = [pc EXCEPT ![j] = "except"]
    /\ exc' = [exc EXCEPT ![j] = msg]

\* The first error of the run of job j, if this is it.
NoteOrigin(j, msg) ==
    origin_error' = [origin_error EXCEPT ![j] = IF @ = "" THEN msg ELSE @]

\* create_job dispatching both tasks for one upload.
DispatchedTasks_Both(job_id, premium, file_path) ==
    { <<"premium", job_id, file_path>>, <<"free", job_id, file_path>> }

\* process_video_premium.delay(...) if use_premium else process_video_free.delay(...)
DispatchedTasks(job_id, premium, file_path) ==
    IF premium THEN { <<"premium", job_id, file_path>> }
               ELSE { <<"free", job_id, file_path>> }

\* POST /jobs: a fresh job id, the row in status PENDING, the upload written
\* to uploads/{job_id}/{filename}, one task dispatched.
create_job(j, name, premium, dur) ==
    /\ status[j] = "absent"
    /\ \A k \in Jobs : k < j => status[k] # "absent"
    /\ status' = [status EXCEPT ![j] = PENDING]
    /\ use_premium' = [use_premium EXCEPT ![j] = premium]
    /\ filename' = [filename EXCEPT ![j] = name]
    /\ true_duration' = [true_duration EXCEPT ![j] = dur]
    /\ fs' = [fs EXCEPT ![UploadPath(j, name)] = File(j, TRUE)]
    /\ queue' = queue \cup DispatchedTasks(j, premium, UploadPath(j, name))
    /\ UNCHANGED <<processed_file_url, error_message, runvars, histvars>>

\* A worker takes a task message and runs the head of process_video_free /
\* process_video_premium: look the job up, return if there is none, else set
\* PROCESSING and commit. The status the job has at that point is not tested.
\* (pc holds one run per job: a message for a job whose run is under way waits.)
Pickup(t) ==
    LET j == t[2] IN
    /\ t \in queue
    /\ pc[j] \in {"idle", "done"}
    /\ queue' = queue \ {t}
    /\ IF status[j] = "absent"
       THEN /\ pc' = [pc EXCEPT ![j] = "done"]
            /\ UNCHANGED status
       ELSE /\ status' = [status EXCEPT ![j] = PROCESSING]
            /\ pc' = [pc EXCEPT ![j] = IF t[1] = "free" THEN "process_with_ffmpeg" ELSE "extract_audio"]
    /\ UNCHANGED <<use_premium, filename, processed_file_url, error_message, true_duration,
                   exc, job_detected, job_filter, job_copy, fs, histvars>>

\* VideoProcessor.get_video_duration: the probed duration, or 0.0 when the
\* probe raises (no ffprobe, no 'duration' key in streams[0], ...).
get_video_duration(j, probe_ok) == IF probe_ok THEN true_duration[j] ELSE 0

\* What a failed run of the encoder leaves at the output path: nothing, or a
\* partially written file. Nothing removes it.
AfterFailedEncode(j, partial) ==
    IF partial THEN [fs EXCEPT ![OutputPath(FilePath(j))] = File(j, FALSE)] ELSE fs

\* RemsiProcessor.detect_silence as process_video sees it. The run of ffmpeg
\* is not checked: after a non-zero exit its output is parsed all the same,
\* and when it cannot be started the error is caught and [] returned. Either
\* way a list comes back and no error is signalled.
detect_silence(outcome, found) == IF outcome = "ok" THEN found ELSE <<>>

\* process_with_ffmpeg not testing what RemsiProcessor.process_video returned.
RemsiReturnsFalse_Ignored(j, cause) ==
    /\ pc' = [pc EXCEPT ![j] = "finish"]
    /\ UNCHANGED <<exc, origin_error>>

\* RemsiProcessor.process_video returned False: process_with_ffmpeg raises
\* Exception("Failed to process video with Remsi").
RemsiReturnsFalse(j, cause) ==
    /\ Raise(j, RemsiFailedMsg)
    /\ NoteOrigin(j, cause)

\* RemsiProcessor.process_video called from process_with_ffmpeg: ffprobe for
\* the duration (float() raises when it printed none), detect_silence,
\* create_filter_complex, the encoder (subprocess.run(check=True)); any
\* exception is caught and False returned.
process_video(j) ==
    \/ /\ RemsiReturnsFalse(j, ProbeValueMsg)
       /\ UNCHANGED <<job_detected, job_filter, fs, detector_outcome, encoder_outcome>>
    \/ \E outcome \in {"ok", "nonzero", "nostart"}, found \in SilenceResults :
       LET silence_segments == detect_silence(outcome, found) IN
       /\ detector_outcome' = [detector_outcome EXCEPT ![j] =
                                  IF outcome = "ok" THEN "ok" ELSE "failed"]
       /\ job_detected' = [job_detected EXCEPT ![j] = silence_segments]
       /\ job_filter' = [job_filter EXCEPT ![j] =
                            create_filter_complex(silence_segments, true_duration[j])]
       /\ \/ /\ encoder_outcome' = [encoder_outcome EXCEPT ![j] = "ok"]
             /\ fs' = [fs EXCEPT ![OutputPath(FilePath(j))] = File(j, TRUE)]
             /\ pc' = [pc EXCEPT ![j] = "finish"]
             /\ UNCHANGED <<exc, origin_error>>
          \/ \E partial \in BOOLEAN :
             /\ encoder_outcome' = [encoder_outcome EXCEPT ![j] = "failed"]
             /\ fs' = AfterFailedEncode(j, partial)
             /\ RemsiReturnsFalse(j, EncoderExitMsg)

\* VideoProcessor.process_with_ffmpeg: probe the duration, apply the
\* free-tier cap, then hand the file to RemsiProcessor.process_video.
process_with_ffmpeg(j) ==
    /\ pc[j] = "process_with_ffmpeg"
    /\ \E probe_ok \in BOOLEAN :
          IF get_video_duration(j, probe_ok) > FreeTierLimit
          THEN /\ Raise(j, TierMsg)
               /\ NoteOrigin(j, TierMsg)
               /\ UNCHANGED <<job_detected, job_filter, fs, detector_outcome, encoder_outcome>>
          ELSE process_video(j)
    /\ UNCHANGED <<dbvars, queue, job_copy, audio_read_from>>

\* process_with_whisper up to the transcription: load the model if it is not
\* loaded yet, then extract the audio track to temp_processing/audio_{filename}.wav
\* (overwrite_output=True).
ExtractAudio(j) ==
    /\ pc[j] = "extract_audio"
    /\ \/ /\ Raise(j, ModelLoadMsg)
          /\ NoteOrigin(j, ModelLoadMsg)
          /\ detector_outcome' = [detector_outcome EXCEPT ![j] = "raised"]
          /\ UNCHANGED fs
       \/ /\ Raise(j, AudioExtractMsg)
          /\ NoteOrigin(j, AudioExtractMsg)
          /\ detector_outcome' = [detector_outcome EXCEPT ![j] = "raised"]
          /\ UNCHANGED fs
       \/ /\ fs' = [fs EXCEPT ![AudioPath(FilePath(j))] = File(j, TRUE)]
          /\ pc' = [pc EXCEPT ![j] = "transcribe"]
          /\ UNCHANGED <<exc, origin_error, detector_outcome>>
    /\ UNCHANGED <<dbvars, queue, job_detected, job_filter, job_copy,
                   encoder_outcome, audio_read_from>>

\* process_with_whisper from the transcription to the encoder:
\* self.whisper_model.transcribe(audio_path) reads the extracted audio;
\* segments = result.get('segments', []); "if segments:" the trim graph and
\* the encoder, "else:" the stream copy, both subprocess.run(check=True).
TranscribeAndEncode(j) ==
    /\ pc[j] = "transcribe"
    /\ \/ /\ Raise(j, TranscribeMsg)
          /\ NoteOrigin(j, TranscribeMsg)
          /\ detector_outcome' = [detector_outcome EXCEPT ![j] = "raised"]
          /\ UNCHANGED <<job_detected, job_filter, job_copy, fs, audio_read_from, encoder_outcome>>
       \/ /\ fs[AudioPath(FilePath(j))] # NoFile
          /\ audio_read_from' = [audio_read_from EXCEPT ![j] = fs[AudioPath(FilePath(j))].by]
          /\ detector_outcome' = [detector_outcome EXCEPT ![j] = "ok"]
          /\ \E segments \in SpeechResults :
             /\ job_detected' = [job_detected EXCEPT ![j] = segments]
             /\ IF copy_through(segments)
                THEN /\ job_copy' = [job_copy EXCEPT ![j] = TRUE]
                     /\ UNCHANGED job_filter
                ELSE /\ job_filter' = [job_filter EXCEPT ![j] =
                                          create_whisper_filter_complex(segments)]
                     /\ UNCHANGED job_copy
          /\ \/ /\ encoder_outcome' = [encoder_outcome EXCEPT ![j] = "ok"]
                /\ fs' = [fs EXCEPT ![OutputPath(FilePath(j))] = File(j, TRUE)]
                /\ pc' = [pc EXCEPT ![j] = "cleanup"]
                /\ UNCHANGED <<exc, origin_error>>
             \/ \E partial \in BOOLEAN :
                /\ encoder_outcome' = [encoder_outcome EXCEPT ![j] = "failed"]
                /\ fs' = AfterFailedEncode(j, partial)
                /\ Raise(j, EncoderExitMsg)
                /\ NoteOrigin(j, EncoderExitMsg)
    /\ UNCHANGED <<dbvars, queue>>

\* if os.path.exists(audio_path):
CleanupExists(j) ==
    /\ pc[j] = "cleanup"
    /\ pc' = [pc EXCEPT ![j] = IF fs[AudioPath(FilePath(j))] # NoFile THEN "remove" ELSE "finish"]
    /\ UNCHANGED <<dbvars, queue, exc, job_detected, job_filter, job_copy, fs, histvars>>

\*     os.remove(audio_path), which raises FileNotFoundError when the file
\*     has gone since the check.
CleanupRemove(j) ==
    /\ pc[j] = "remove"
    /\ IF fs[AudioPath(FilePath(j))] # NoFile
       THEN /\ fs' = [fs EXCEPT ![AudioPath(FilePath(j))] = NoFile]
            /\ pc' = [pc EXCEPT ![j] = "finish"]
            /\ UNCHANGED <<exc, origin_error>>
       ELSE /\ Raise(j, RemoveMsg)
            /\ NoteOrigin(j, RemoveMsg)
            /\ UNCHANGED fs
    /\ UNCHANGED <<dbvars, queue, job_detected, job_filter, job_copy,
                   detector_outcome, encoder_outcome, audio_read_from>>

\* The processor returned: job.status = COMPLETED, job.processed_file_url =
\* ..., db.commit().
Finish(j) ==
    /\ pc[j] = "finish"
    /\ status' = [status EXCEPT ![j] = COMPLETED]
    /\ processed_file_url' = [processed_file_url EXCEPT ![j] = DownloadUrl(j, FilePath(j))]
    /\ pc' = [pc EXCEPT ![j] = "done"]
    /\ UNCHANGED <<use_premium, filename, error_message, true_duration, queue,
                   exc, job_detected, job_filter, job_copy, fs, histvars>>

\* except Exception as e: job.status = FAILED, job.error_message = str(e),
\* db.commit() (when the job is found).
Except(j) ==
    /\ pc[j] = "except"
    /\ IF status[j] # "absent"
       THEN /\ status' = [status EXCEPT ![j] = FAILED]
            /\ error_message' = [error_message EXCEPT ![j] = exc[j]]
       ELSE UNCHANGED <<status, error_message>>
    /\ pc' = [pc EXCEPT ![j] = "done"]
    /\ UNCHANGED <<use_premium, filename, processed_file_url, true_duration, queue,
                   exc, job_detected, job_filter, job_copy, fs, histvars>>

\* The planner runs do not move in the lifecycle runs, and conversely.
PlanIdle ==
    /\ plan_mode = "idle"
    /\ detected = <<>>
    /\ video_duration = 1
    /\ filter_complex = <<>>
    /\ used_copy = FALSE

\* The parser runs do not move in the lifecycle and planner runs.
ParseIdle ==
    /\ parse_mode = "idle"
    /\ output = <<>>
    /\ parsed = <<>>
    /\ parse_raised = FALSE

Init == JobInit /\ PlanIdle /\ ParseIdle

Next ==
    \/ \E j \in Jobs, u \in Uploads :
          create_job(j, u.name, u.premium, u.dur) /\ UNCHANGED <<planvars, parsevars>>
    \/ \E t \in queue : Pickup(t) /\ UNCHANGED <<planvars, parsevars>>
    \/ \E j \in Jobs : process_with_ffmpeg(j) /\ UNCHANGED <<planvars, parsevars>>
    \/ \E j \in Jobs : ExtractAudio(j) /\ UNCHANGED <<planvars, parsevars>>
    \/ \E j \in Jobs : TranscribeAndEncode(j) /\ UNCHANGED <<planvars, parsevars>>
    \/ \E j \in Jobs : CleanupExists(j) /\ UNCHANGED <<planvars, parsevars>>
    \/ \E j \in Jobs : CleanupRemove(j) /\ UNCHANGED <<planvars, parsevars>>
    \/ \E j \in Jobs : Finish(j) /\ UNCHANGED <<planvars, parsevars>>
    \/ \E j \in Jobs : Except(j) /\ UNCHANGED <<planvars, parsevars>>

Spec == Init /\ [][Next]_vars

\* The steps of the task runs: everything a worker does after taking a task.
TaskSteps ==
    \E j \in Jobs :
        /\ \/ process_with_ffmpeg(j)
           \/ ExtractAudio(j)
           \/ TranscribeAndEncode(j)
           \/ CleanupExists(j)
           \/ CleanupRemove(j)
           \/ Finish(j)
           \/ Except(j)
        /\ UNCHANGED <<planvars, parsevars>>

\* The lifecycle with workers that keep running the tasks they have taken:
\* every call a task makes returns or raises, so a task step that can be taken
\* is taken. Nothing is assumed about submissions or about when a queued task
\* is taken.
SpecLive == Spec /\ WF_vars(TaskSteps)

\* ----------------------------------------------------------- planner runs
Times == 0..MaxTime
Intervals == {<<s, e>> : s \in Times, e \in Times}
RECURSIVE SeqsUpTo(_, _)
SeqsUpTo(S, n) ==
    IF n = 0 THEN {<<>>}
    ELSE LET shorter == SeqsUpTo(S, n - 1)
         IN  shorter \cup {Append(q, x) : q \in {r \in shorter : Len(r) = n - 1}, x \in S}

PlanInit ==
    /\ JobInit
    /\ ParseIdle
    /\ plan_mode = "input"
    /\ detected \in SeqsUpTo({iv \in Intervals : iv[1] <= iv[2]}, MaxLen)
    /\ video_duration \in 1..MaxTime
    /\ filter_complex = <<>>
    /\ used_copy = FALSE

\* Every interval of the list has start < end.
ProperIntervals(segs) == \A i \in 1..Len(segs) : segs[i][1] < segs[i][2]

\* RemsiProcessor.process_video, planning step: the detector's result is a
\* list of silence intervals.
PlanBasic ==
    /\ plan_mode = "input"
    /\ ProperIntervals(detected)
    /\ plan_mode' = "basic"
    /\ filter_complex' = create_filter_complex(detected, video_duration)
    /\ UNCHANGED <<detected, video_duration, used_copy, jobvars, parsevars>>

\* VideoProcessor.process_with_whisper, planning step: the detector's result
\* is the model's list of speech segments.
PlanPremium ==
    /\ plan_mode = "input"
    /\ plan_mode' = "premium"
    /\ IF copy_through(detected)
       THEN /\ filter_complex' = <<>>
            /\ used_copy' = TRUE
       ELSE /\ filter_complex' = create_whisper_filter_complex(detected)
            /\ used_copy' = FALSE
    /\ UNCHANGED <<detected, video_duration, jobvars, parsevars>>

PlanNext == PlanBasic \/ PlanPremium

SpecPlan == PlanInit /\ [][PlanNext]_vars


\* ------------------------------------------------------------ parser runs
\* One line of the detector's output (result.stdout split at '\n'):
\*   marker  the keyword in the line: "silence_start", "silence_end" or
\*           "" (a line with neither, such as ffmpeg's progress lines);
\*   text    what follows "<marker>: ": "digits", a decimal number, or "dots",
\*           characters of [\d.]+ that are no number (such as "1.2.3");
\*   value   the number the text denotes, when it is one.
Line(marker, text, value) == [marker |-> marker, text |-> text, value |-> value]

StartLine(t) == Line("silence_start", "digits", t)
EndLine(t) == Line("silence_end", "digits", t)
OtherLine == Line("", "", 0)
BadStartLine == Line("silence_start", "dots", 0)
BadEndLine == Line("silence_end", "dots", 0)

TraceLines ==
    {StartLine(t) : t \in Times} \cup {EndLine(t) : t \in Times}
        \cup {OtherLine, BadStartLine, BadEndLine}

\* float(match.group(1)): the number, or ValueError.
float(line) ==
    IF line.text = "digits" THEN [raised |-> FALSE, value |-> line.value]
    ELSE [raised |-> TRUE, value |-> 0]

Returned(segments) == [raised |-> FALSE, segments |-> segments]
Raised == [raised |-> TRUE, segments |-> <<>>]

RECURSIVE parse_silence_output_from(_, _, _, _)
\* The loop of RemsiProcessor._parse_silence_output from line i on;
\* current_start is <<>> for None, <<t>> otherwise.
parse_silence_output_from(lines, i, current_start, silence_segments) ==
    IF i > Len(lines) THEN Returned(silence_segments)
    ELSE LET line == lines[i] IN
         IF line.marker = "silence_start"
         THEN IF float(line).raised THEN Raised
              ELSE parse_silence_output_from(lines, i + 1, <<float(line).value>>,
                                             silence_segments)
         ELSE IF line.marker = "silence_end" /\ current_start # <<>>
         THEN IF float(line).raised THEN Raised
              ELSE parse_silence_output_from(lines, i + 1, <<>>,
                       Append(silence_segments, <<current_start[1], float(line).value>>))
         ELSE parse_silence_output_from(lines, i + 1, current_start, silence_segments)

\* RemsiProcessor._parse_silence_output
parse_silence_output(lines) == parse_silence_output_from(lines, 1, <<>>, <<>>)

\* detect_silence around the parser: "except Exception: return []".
detect_silence_parse(lines) ==
    IF parse_silence_output(lines).raised THEN <<>>
    ELSE parse_silence_output(lines).segments

RECURSIVE VideoProcessor_parse_from(_, _, _, _)
\* The loop of VideoProcessor._parse_silence_output from line i on; start_time
\* is <<>> while the local is unbound, and is kept after a pair is appended.
VideoProcessor_parse_from(lines, i, start_time, segments) ==
    IF i > Len(lines) THEN Returned(segments)
    ELSE LET line == lines[i] IN
         IF line.marker = "silence_start"
         THEN IF float(line).raised THEN Raised
              ELSE VideoProcessor_parse_from(lines, i + 1, <<float(line).value>>, segments)
         ELSE IF line.marker = "silence_end"
         THEN IF float(line).raised \/ start_time = <<>> THEN Raised
              ELSE VideoProcessor_parse_from(lines, i + 1, start_time,
                       Append(segments, <<start_time[1], float(line).value>>))
         ELSE VideoProcessor_parse_from(lines, i + 1, start_time, segments)

\* VideoProcessor._parse_silence_output
VideoProcessor_parse_silence_output(lines) == VideoProcessor_parse_from(lines, 1, <<>>, <<>>)

\* A detector trace about a clip of duration video_duration.
ParseInit ==
    /\ JobInit
    /\ plan_mode = "idle"
    /\ detected = <<>>
    /\ video_duration = MaxTime
    /\ filter_complex = <<>>
    /\ used_copy = FALSE
    /\ parse_mode = "input"
    /\ output \in SeqsUpTo(TraceLines, MaxTrace)
    /\ parsed = <<>>
    /\ parse_raised = FALSE

\* RemsiProcessor.detect_silence from "silence_segments = self._parse_..." on.
ParseRemsi ==
    /\ parse_mode = "input"
    /\ parse_mode' = "remsi"
    /\ parsed' = detect_silence_parse(output)
    /\ parse_raised' = parse_silence_output(output).raised
    /\ UNCHANGED <<output, planvars, jobvars>>

\* A call of VideoProcessor._parse_silence_output; no caller catches.
ParseVideoProcessor ==
    /\ parse_mode = "input"
    /\ parse_mode' = "video_processor"
    /\ parsed' = VideoProcessor_parse_silence_output(output).segments
    /\ parse_raised' = VideoProcessor_parse_silence_output(output).raised
    /\ UNCHANGED <<output, planvars, jobvars>>

ParseNext == ParseRemsi \/ ParseVideoProcessor

SpecParse == ParseInit /\ [][ParseNext]_vars

\* ------------------------------------------- reference interval arithmetic
\* The unit cells [t, t+1) of [0, duration) lying inside some interval of segs.
CoveredCells(segs, duration) ==
    {t \in 0..(duration - 1) : \E i \in 1..Len(segs) : segs[i][1] <= t /\ t < segs[i][2]}

RECURSIVE AscendingRuns(_, _)
\* The maximal runs of consecutive cells from cell t on, as intervals, ascending.
AscendingRuns(cells, t) ==
    IF \A c \in cells : c < t THEN <<>>
    ELSE LET s == CHOOSE c \in cells : c >= t /\ \A d \in cells : d >= t => c <= d
             e == CHOOSE x \in (s + 1)..(s + Cardinality(cells)) :
                      /\ x \notin cells
                      /\ \A y \in s..(x - 1) : y \in cells
         IN  <<<<s, e>>>> \o AscendingRuns(cells, e)

\* complement(merge(segs), [0, duration]) as a sorted list of maximal intervals.
ComplementOfMerge(segs, duration) ==
    AscendingRuns((0..(duration - 1)) \ CoveredCells(segs, duration), 0)

\* A SilenceIntervalSet of an input of the given duration: every interval has
\* 0 <= start < end <= duration, sorted ascending, pairwise non-overlapping.
SilenceIntervalSet(segs, duration) ==
    /\ \A i \in 1..Len(segs) : 0 <= segs[i][1] /\ segs[i][1] < segs[i][2] /\ segs[i][2] <= duration
    /\ \A i \in 1..(Len(segs) - 1) : segs[i][2] <= segs[i + 1][1]

\* The intervals cover all of [0, duration].
CoversAll(segs, duration) == CoveredCells(segs, duration) = 0..(duration - 1)

\* Strictly ascending by start, no overlap, start < end, within [0, duration].
WellFormedKeep(keep, duration) ==
    /\ \A i \in 1..Len(keep) : 0 <= keep[i][1] /\ keep[i][1] < keep[i][2] /\ keep[i][2] <= duration
    /\ \A i \in 1..(Len(keep) - 1) : keep[i][1] < keep[i + 1][1] /\ keep[i][2] <= keep[i + 1][1]

\* ------------------------------------------------------------------ claims
\* A task run of job j is under way.
Running(j) == pc[j] \notin {"idle", "done"}

\* The status changes the lifecycle allows; "absent" -> PENDING is the
\* submission.
AllowedTransitions ==
    { <<"absent", PENDING>>, <<PENDING, PROCESSING>>,
      <<PROCESSING, COMPLETED>>, <<PROCESSING, FAILED>> }

\* C1: the status of every job changes only along PENDING -> PROCESSING,
\* PROCESSING -> COMPLETED and PROCESSING -> FAILED; COMPLETED and FAILED are
\* never left.
C1_StatusTransitions ==
    [][\A j \in Jobs : status'[j] # status[j]
                          => <<status[j], status'[j]>> \in AllowedTransitions]_vars

\* C1 witness: one job has ended COMPLETED and another FAILED.
C1_Witness ==
    \E i, j \in Jobs : status[i] = COMPLETED /\ status[j] = FAILED

\* C2: a basic-tier job whose input is longer than 60 s never has the silence
\* detector or the encoder invoked, and ends FAILED with the tier-violation
\* error.
C2_LongBasicJobFailsBeforeDetection ==
    \A j \in Jobs :
        (status[j] # "absent" /\ ~use_premium[j] /\ true_duration[j] > FreeTierLimit)
            => /\ detector_outcome[j] = "none"
               /\ encoder_outcome[j] = "none"
               /\ pc[j] = "done" => (status[j] = FAILED /\ error_message[j] = TierMsg)

\* C3: whenever a stage of the pipeline raised an error for a job, the job
\* ends FAILED and the error reason stored on the job is the message of the
\* error that originated the failure.
C3_OriginatingMessageStored ==
    \A j \in Jobs :
        (pc[j] = "done" /\ origin_error[j] # "")
            => (status[j] = FAILED /\ error_message[j] = origin_error[j])

\* C4: when the silence-analysis process fails to start or exits non-zero, the
\* job never proceeds to encoding, never ends COMPLETED, and ends FAILED.
C4_DetectionFailureFailsJob ==
    \A j \in Jobs :
        (~use_premium[j] /\ detector_outcome[j] = "failed")
            => /\ encoder_outcome[j] = "none"
               /\ status[j] # COMPLETED
               /\ pc[j] = "done" => status[j] = FAILED

\* C5: when the encoder process failed for a job (either tier), the job ends
\* FAILED and no file exists at its output path afterwards.
C5_NoOutputAfterFailedEncode ==
    \A j \in Jobs :
        (pc[j] = "done" /\ encoder_outcome[j] = "failed")
            => (status[j] = FAILED /\ fs[OutputPath(FilePath(j))] = NoFile)

\* C6: two distinct jobs running at the same time never share an output path
\* or an audio-extraction temp path, and a transcription never reads audio
\* extracted by another job.
C6_NoSharedPaths ==
    /\ \A i, j \in Jobs :
          (i # j /\ Running(i) /\ Running(j))
              => /\ OutputPath(FilePath(i)) # OutputPath(FilePath(j))
                 /\ (use_premium[i] /\ use_premium[j])
                        => AudioPath(FilePath(i)) # AudioPath(FilePath(j))
    /\ \A j \in Jobs : audio_read_from[j] \in {0, j}

\* Every interval of the list lies within [0, duration].
WithinDuration(segs, duration) ==
    \A i \in 1..Len(segs) : 0 <= segs[i][1] /\ segs[i][2] <= duration

\* C7: for every duration D and every list of silence intervals within [0, D]
\* (the empty list, unsorted and overlapping lists included), the intervals
\* create_filter_complex keeps are the complement of the merged silence within
\* [0, D]. The all-silent case, where the complement is empty, is left to C9.
C7_KeepIsComplementOfMerge ==
    (/\ plan_mode = "basic"
     /\ WithinDuration(detected, video_duration)
     /\ ComplementOfMerge(detected, video_duration) # <<>>)
        => KeptIntervals(filter_complex, video_duration)
               = ComplementOfMerge(detected, video_duration)

\* C8: in both modes the intervals turned into trim nodes are strictly
\* ascending by start, pairwise non-overlapping, have start < end and lie
\* within [0, D].
C8_TrimIntervalsWellFormed ==
    (plan_mode \in {"basic", "premium"})
        => WellFormedKeep(TrimIntervals(filter_complex), video_duration)

\* C9: the planner never produces an empty keep set, and when the silence
\* intervals (a silence set of the input: sorted, non-overlapping, within
\* [0, D]) cover the whole of [0, D], the graph is built from exactly one
\* interval, starting at 0 and 0.1 s long.
C9_AllSilentKeepsFallback ==
    plan_mode = "basic" =>
        /\ KeptIntervals(filter_complex, video_duration) # <<>>
        /\ (SilenceIntervalSet(detected, video_duration) /\ CoversAll(detected, video_duration))
               => /\ TrimIntervals(filter_complex) = << <<0, FallbackDuration>> >>
                  /\ Len(filter_complex) = 3

\* C9 witness: two abutting silences that together cover [0, D] were planned.
C9_Witness ==
    /\ plan_mode = "basic"
    /\ Len(detected) = 2
    /\ SilenceIntervalSet(detected, video_duration)
    /\ CoversAll(detected, video_duration)
    /\ filter_complex = AllSilentFilter

\* The transcription of premium job j returned no speech segments.
NoSpeech(j) ==
    use_premium[j] /\ detector_outcome[j] = "ok" /\ job_detected[j] = <<>>

\* C10 as stated: a premium job whose transcription returns no segments is
\* copied through without a trim graph and ends COMPLETED.
C10_NoSpeechCompletes ==
    \A j \in Jobs :
        (NoSpeech(j) /\ pc[j] = "done")
            => (job_copy[j] /\ job_filter[j] = <<>> /\ status[j] = COMPLETED)

\* C10 amended: a premium job whose transcription returns no segments takes the
\* stream copy and builds no trim graph; it ends COMPLETED, with the whole
\* copy at its output path, exactly when the copy exits zero and the temp
\* audio clean-up does not raise, and FAILED otherwise.
C10_NoSpeechCopiesThrough ==
    \A j \in Jobs :
        NoSpeech(j)
            => /\ job_copy[j]
               /\ job_filter[j] = <<>>
               /\ pc[j] = "done" =>
                     /\ status[j] \in {COMPLETED, FAILED}
                     /\ status[j] = COMPLETED
                           <=> (encoder_outcome[j] = "ok" /\ origin_error[j] = "")
                     /\ status[j] = COMPLETED
                           => fs[OutputPath(FilePath(j))] = File(j, TRUE)

\* C10 witness: a premium job without speech was copied through and COMPLETED.
C10_Witness ==
    \E j \in Jobs :
        NoSpeech(j) /\ pc[j] = "done" /\ status[j] = COMPLETED /\ job_copy[j]

\* The lines of a trace that carry no unparsable number.
WellFormedLines(lines) == SelectSeq(lines, LAMBDA line : line.text # "dots")

\* The trace ends with an unmatched silence_start at time t: a start marker
\* with no start or end marker after it.
TrailingStart(lines, t) ==
    \E k \in 1..Len(lines) :
        /\ lines[k] = StartLine(t)
        /\ \A m \in (k + 1)..Len(lines) : lines[m].marker = ""

\* C11: when a detector trace of well-formed lines ends with an unmatched
\* silence_start at time T, the parser returns without raising and the last
\* interval it returns is the closed interval (T, duration).
C11_TrailingStartClosedAtDuration ==
    \A t \in Times :
        (/\ parse_mode \in {"remsi", "video_processor"}
         /\ WellFormedLines(output) = output
         /\ TrailingStart(output, t))
            => /\ ~parse_raised
               /\ parsed # <<>>
               /\ parsed[Len(parsed)] = <<t, video_duration>>

\* C12: when the detector trace holds malformed lines among well-formed
\* markers, detect_silence returns exactly the intervals that the well-formed
\* lines give: only the malformed lines are skipped.
C12_MalformedLinesSkipped ==
    parse_mode = "remsi" => parsed = detect_silence_parse(WellFormedLines(output))

\* Speech segments as the transcription model returns them: start < end, in
\* ascending order, not overlapping.
SpeechSegments(segs) ==
    /\ ProperIntervals(segs)
    /\ \A i \in 1..(Len(segs) - 1) : segs[i][2] <= segs[i + 1][1]

\* The number of intervals left when consecutive segments whose gap is below
\* the merge tolerance of 0.3 s (3 tenths) are merged.
MergedCount(segs) ==
    IF segs = <<>> THEN 0
    ELSE 1 + Cardinality({i \in 1..(Len(segs) - 1) : segs[i + 1][1] - segs[i][2] >= 3})

\* C13: in the premium path the filter graph has one trim pair per merged
\* interval, consecutive speech segments closer than 0.3 s being merged first.
C13_TrimPairsEqualMergedSegments ==
    (/\ plan_mode = "premium"
     /\ ~used_copy
     /\ SpeechSegments(detected))
        => Len(VideoTrims(filter_complex)) = MergedCount(detected)

\* C14: the graph built for a list of keep intervals has one video trim and
\* one audio trim per interval, two concatenations and one final merge, so
\* its node count is fixed by the number of keep intervals, the no-silence
\* and all-silent cases included.
C14_NodeCountByKeepLength ==
    (plan_mode \in {"basic", "premium"} /\ ~used_copy)
        => Len(filter_complex)
               = 2 * Len(KeptIntervals(filter_complex, video_duration)) + 3

\* merge(segs) clamped to [0, duration], as a sorted list of maximal intervals.
MergeClamped(segs, duration) == AscendingRuns(CoveredCells(segs, duration), 0)

\* C15: computing the keep intervals of the keep intervals of a silence list
\* gives back the merged silence list clamped to [0, D].
C15_ComplementInvolution ==
    plan_mode = "basic"
        => non_silent_segments(non_silent_segments(detected, video_duration),
                               video_duration)
               = MergeClamped(detected, video_duration)

\* C16: a job is COMPLETED only when its encoder or stream copy has
\* succeeded, and then its output reference is the download path of the
\* processed file of that same job, that file has been written in full by the
\* job's own run, and its error message is unset.
C16_CompletedHasOutput ==
    \A j \in Jobs :
        status[j] = COMPLETED
            => /\ encoder_outcome[j] = "ok"
               /\ processed_file_url[j] = Path("/downloads", j, "processed_", filename[j])
               /\ fs[Path("uploads", j, "processed_", filename[j])] = File(j, TRUE)
               /\ error_message[j] = ""

\* C16 witness: a basic job and a premium job have both ended COMPLETED.
C16_Witness ==
    \E i, j \in Jobs :
        /\ status[i] = COMPLETED /\ ~use_premium[i]
        /\ status[j] = COMPLETED /\ use_premium[j]

====
